---------------------------- MODULE Spec2Model ----------------------------
(***************************************************************************)
(* Docs to Markdown Converter (src/app.py): the upload-ingest and          *)
(* deduplication pipeline of the Streamlit script, as a state machine.     *)
(*                                                                         *)
(* One script run = one execution of app.py from top to bottom.  The       *)
(* session state (st.session_state.results) and the scratch directory      *)
(* survive between runs; everything else is recomputed.  Text is a         *)
(* sequence of Unicode code points, so that byte lengths, the regex chain  *)
(* of strip_markdown and sanitize_filename are computed, not assumed.      *)
(***************************************************************************)
EXTENDS Integers, Sequences, FiniteSets, TLC

(***************************************************************************)
(* Text: sequences of code points                                          *)
(***************************************************************************)
\* Python's None, in the type of texts (no code point is negative) and in the
\* type of byte counts (no count is negative)
NoneText == <<-1>>
NoneInt  == -1

\* truthiness of an Optional[str]: neither None nor ""
Truthy(t) == t # NoneText /\ t # <<>>

\* x or ""
OrEmpty(t) == IF Truthy(t) THEN t ELSE <<>>

Min(a, b) == IF a <= b THEN a ELSE b
Max(a, b) == IF a >= b THEN a ELSE b

\* str.isspace() / regex \s for str patterns
Whitespace ==
    (9..13) \cup (28..32) \cup {133, 160, 5760} \cup (8192..8202)
        \cup {8232, 8233, 8239, 8287, 12288}

Upper == 65..90
Lower == 97..122
Digit == 48..57

\* the character class [A-Za-z0-9._-] of sanitize_filename
SafeChars == Upper \cup Lower \cup Digit \cup {46, 95, 45}

\* number of consecutive elements of s, from position p on, that are in S
SpanIn(s, p, S) ==
    LET stops == {q \in p..Len(s) : s[q] \notin S}
    IN  IF stops = {} THEN Max(Len(s) - p + 1, 0)
        ELSE (CHOOSE q \in stops : \A r \in stops : q <= r) - p

\* number of consecutive elements of s, from position p on, that are not in S
SpanNotIn(s, p, S) ==
    LET stops == {q \in p..Len(s) : s[q] \in S}
    IN  IF stops = {} THEN Max(Len(s) - p + 1, 0)
        ELSE (CHOOSE q \in stops : \A r \in stops : q <= r) - p

\* str.strip()
Strip(s) ==
    LET lead  == SpanIn(s, 1, Whitespace)
        keep  == {q \in 1..Len(s) : s[q] \notin Whitespace}
        last_ == IF keep = {} THEN 0
                 ELSE CHOOSE q \in keep : \A r \in keep : q >= r
    IN  IF keep = {} THEN <<>> ELSE SubSeq(s, lead + 1, last_)

\* str.lower() on the ASCII letters
ToLower(s) == [q \in 1..Len(s) |-> IF s[q] \in Upper THEN s[q] + 32 ELSE s[q]]

\* bytes of one code point in UTF-8
Utf8Bytes(c) ==
    IF c < 128 THEN 1 ELSE IF c < 2048 THEN 2 ELSE IF c < 65536 THEN 3 ELSE 4

\* len(text.encode("utf-8"))
RECURSIVE Utf8Len(_)
Utf8Len(s) == IF s = <<>> THEN 0 ELSE Utf8Bytes(Head(s)) + Utf8Len(Tail(s))

(***************************************************************************)
(* pathlib: Path(name).suffix and Path(name).stem                          *)
(***************************************************************************)
\* final path component
PathName(p) ==
    LET slashes == {q \in 1..Len(p) : p[q] = 47}
        cut     == IF slashes = {} THEN 0
                   ELSE CHOOSE q \in slashes : \A r \in slashes : q >= r
    IN  SubSeq(p, cut + 1, Len(p))

\* name.rfind("."), 0 when there is no dot (positions count from 1)
LastDot(n) ==
    LET dots == {q \in 1..Len(n) : n[q] = 46}
    IN  IF dots = {} THEN 0 ELSE CHOOSE q \in dots : \A r \in dots : q >= r

PathSuffix(p) ==
    LET n == PathName(p)
        d == LastDot(n)
    IN  IF 1 < d /\ d < Len(n) THEN SubSeq(n, d, Len(n)) ELSE <<>>

PathStem(p) ==
    LET n == PathName(p)
        d == LastDot(n)
    IN  IF 1 < d /\ d < Len(n) THEN SubSeq(n, 1, d - 1) ELSE n

(***************************************************************************)
(* Utilities of app.py                                                     *)
(***************************************************************************)
FallbackName == <<102, 105, 108, 101>>          \* "file"

sanitize_filename(name) ==
    LET t == Strip(name)
        u == [q \in 1..Len(t) |-> IF t[q] = 32 THEN 95 ELSE t[q]]
        v == SelectSeq(u, LAMBDA c : c \in SafeChars)
    IN  IF v = <<>> THEN FallbackName ELSE v

Backtick == 96
Newline  == 10

\* re.sub(r"`{1,3}[^`]*`{1,3}", "", md): where the match that starts at p
\* ends (the position after it), 0 when there is none
CodeSpanEnd(s, p) ==
    IF s[p] # Backtick THEN 0
    ELSE LET r == SpanIn(s, p, {Backtick})
             k == Min(3, r)
             q == p + k + SpanNotIn(s, p + k, {Backtick})
         IN  IF q <= Len(s) THEN q + Min(3, SpanIn(s, q, {Backtick}))
             ELSE IF r >= 2 THEN p + r
             ELSE 0

RECURSIVE SubCodeSpans(_, _)
SubCodeSpans(s, p) ==
    IF p > Len(s) THEN <<>>
    ELSE LET e == CodeSpanEnd(s, p)
         IN  IF e = 0 THEN <<s[p]>> \o SubCodeSpans(s, p + 1)
             ELSE SubCodeSpans(s, e)

\* the block markers of (#+|\*|-|\+|>)
BlockMarkers == {35, 42, 45, 43, 62}

\* re.sub(r"^\s{0,3}(#+|\*|-|\+|>)\s*", "", text, flags=re.MULTILINE):
\* the end of the match at the line start p, 0 when there is none
BlockMarkerEnd(s, p) ==
    LET w == SpanIn(s, p, Whitespace)
        m == p + w
    IN  IF w <= 3 /\ m <= Len(s) /\ s[m] \in BlockMarkers
        THEN LET a == IF s[m] = 35 THEN m + SpanIn(s, m, {35}) ELSE m + 1
             IN  a + SpanIn(s, a, Whitespace)
        ELSE 0

RECURSIVE SubBlockMarkers(_, _)
SubBlockMarkers(s, p) ==
    IF p > Len(s) THEN <<>>
    ELSE LET e == IF p = 1 \/ s[p - 1] = Newline THEN BlockMarkerEnd(s, p) ELSE 0
         IN  IF e = 0 THEN <<s[p]>> \o SubBlockMarkers(s, p + 1)
             ELSE SubBlockMarkers(s, e)

\* the tail "](url)" of an image or a link whose text starts at a: <<c, e>>
\* with c the position of "]" and e the end of the match, <<0, 0>> when the
\* pattern does not match
LinkTail(s, a) ==
    LET c == a + SpanNotIn(s, a, {93})
        u == c + 2
        v == u + SpanNotIn(s, u, {41})
    IN  IF c <= Len(s) /\ c + 1 <= Len(s) /\ s[c + 1] = 40
           /\ v > u /\ v <= Len(s)
        THEN <<c, v + 1>> ELSE <<0, 0>>

\* re.sub(r"!\[([^\]]*)\]\([^)]+\)", r"\1", text)
RECURSIVE SubImages(_, _)
SubImages(s, p) ==
    IF p > Len(s) THEN <<>>
    ELSE LET t == IF s[p] = 33 /\ p + 1 <= Len(s) /\ s[p + 1] = 91
                  THEN LinkTail(s, p + 2) ELSE <<0, 0>>
         IN  IF t[2] = 0 THEN <<s[p]>> \o SubImages(s, p + 1)
             ELSE SubSeq(s, p + 2, t[1] - 1) \o SubImages(s, t[2])

\* re.sub(r"\[([^\]]+)\]\([^)]+\)", r"\1", text)
RECURSIVE SubLinks(_, _)
SubLinks(s, p) ==
    IF p > Len(s) THEN <<>>
    ELSE LET t == IF s[p] = 91 THEN LinkTail(s, p + 1) ELSE <<0, 0>>
         IN  IF t[2] = 0 \/ t[1] = p + 1 THEN <<s[p]>> \o SubLinks(s, p + 1)
             ELSE SubSeq(s, p + 1, t[1] - 1) \o SubLinks(s, t[2])

\* the characters of [*_>#~`]
Punctuation == {42, 95, 62, 35, 126, 96}

\* re.sub(r"[ \t]+", " ", text)
CollapseBlanks(s) ==
    LET keep == {q \in 1..Len(s) :
                    s[q] \notin {32, 9} \/ q = 1 \/ s[q - 1] \notin {32, 9}}
        RECURSIVE Pick(_)
        Pick(q) == IF q > Len(s) THEN <<>>
                   ELSE IF q \in keep
                        THEN <<IF s[q] = 9 THEN 32 ELSE s[q]>> \o Pick(q + 1)
                        ELSE Pick(q + 1)
    IN  Pick(1)

strip_markdown(md) ==
    LET t1 == SubCodeSpans(md, 1)
        t2 == SubBlockMarkers(t1, 1)
        t3 == SubImages(t2, 1)
        t4 == SubLinks(t3, 1)
        t5 == SelectSeq(t4, LAMBDA c : c \notin Punctuation)
        t6 == CollapseBlanks(t5)
    IN  Strip(t6)


(***************************************************************************)
(* Config                                                                  *)
(***************************************************************************)
ALLOWED_TYPES == {
    <<112, 100, 102>>,                       \* pdf
    <<100, 111, 99, 120>>,                   \* docx
    <<100, 111, 99>>,                        \* doc
    <<112, 112, 116, 120>>,                  \* pptx
    <<112, 112, 116>>,                       \* ppt
    <<120, 108, 115, 120>>,                  \* xlsx
    <<120, 108, 115>>,                       \* xls
    <<114, 116, 102>>,                       \* rtf
    <<104, 116, 109, 108>>,                  \* html
    <<104, 116, 109>>,                       \* htm
    <<109, 100>>,                            \* md
    <<116, 120, 116>>,                       \* txt
    <<99, 115, 118>>,                        \* csv
    <<116, 115, 118>>,                       \* tsv
    <<106, 112, 103>>,                       \* jpg
    <<106, 112, 101, 103>>,                  \* jpeg
    <<112, 110, 103>>,                       \* png
    <<103, 105, 102>>,                       \* gif
    <<98, 109, 112>>,                        \* bmp
    <<116, 105, 102, 102>>,                  \* tiff
    <<119, 101, 98, 112>>,                   \* webp
    <<109, 112, 51>>,                        \* mp3
    <<119, 97, 118>>,                        \* wav
    <<109, 52, 97>>,                         \* m4a
    <<111, 103, 103>>,                       \* ogg
    <<102, 108, 97, 99>>,                    \* flac
    <<122, 105, 112>> }                      \* zip

ACCEPTED_EXTS == {<<46>> \o x : x \in ALLOWED_TYPES}

CHUNK_SIZE == 4 * 1024 * 1024
HARD_CAP_MB == 200

is_supported(filename) == ToLower(PathSuffix(filename)) \in ACCEPTED_EXTS

\* the cap compared one megabyte too high
ExceedsHardCapLoose(num_bytes) == num_bytes > (HARD_CAP_MB + 1) * 1024 * 1024

\* human_mb(num_bytes) > HARD_CAP_MB.  num_bytes / (1024 * 1024) is exact in
\* double precision for every count below 2^53, so the comparison of the
\* quotient is the comparison of the count with the cap in bytes.
ExceedsHardCap(num_bytes) == num_bytes > HARD_CAP_MB * 1024 * 1024

(***************************************************************************)
(* The documents and uploads the user has at hand                          *)
(***************************************************************************)
\* the read of the upload stream that raises: none (0), or the first
FaultReads == {0, 1}
\* the temporary files one session may create, over all its script runs: a
\* run starts when there are enough left for each of its uploads
MaxFiles == 3
\* the uploads in the uploader at one time
MaxBatch == 2
\* the seconds the wall clock may advance during the session
MaxClock == 0

\* A document is a byte string; the model keeps its length and what the
\* external converter (MarkItDown) extracts from it, res.text_content.
Contents == {"docA", "atCap", "empty", "over"}

ByteLen(c) ==
    CASE c = "docA"  -> 5 * 1024 * 1024
      [] c = "empty" -> 0
      [] c = "atCap" -> 200 * 1024 * 1024
      [] c = "over"  -> 200 * 1024 * 1024 + 1

text_content(c) ==
    CASE c = "docA"  -> <<32, 35, 32, 72, 105, 10, 91, 97, 93, 40, 117, 41, 32, 233, 10>>
                        \* " # Hi\n[a](u) é\n"
      [] c = "empty" -> NoneText
      [] c = "atCap" -> <<96, 120, 96>>                            \* "`x`"
      [] c = "over"  -> <<111>>                                    \* "o"

\* hashlib.sha256 over the bytes fed to it: one digest per byte string
\* (SHA-256 is taken to be collision free)
Sha256Hex(c) == <<"sha256", c>>

Digests == {Sha256Hex(c) : c \in Contents}

\* an UploadedFile: its client-side name, its bytes, its declared size
\* (None when the attribute is missing) and the most bytes one read returns
Catalogue == <<
    [name |-> <<109, 121, 32, 114, 101, 112, 111, 114, 116, 46, 112, 100, 102>>,
     content |-> "docA", size |-> 5 * 1024 * 1024, read |-> CHUNK_SIZE],
                                                        \* "my report.pdf"
    [name |-> <<99, 111, 112, 121, 46, 80, 68, 70>>,
     content |-> "docA", size |-> NoneInt, read |-> 3 * 1024 * 1024],
                                                        \* "copy.PDF"
    [name |-> <<99, 97, 112, 46, 99, 115, 118>>,
     content |-> "atCap", size |-> 200 * 1024 * 1024, read |-> CHUNK_SIZE],
                                                        \* "cap.csv"
    [name |-> <<98, 105, 103, 46, 122, 105, 112>>,
     content |-> "over", size |-> 1024 * 1024, read |-> CHUNK_SIZE],
                                                        \* "big.zip"
    [name |-> <<108, 105, 97, 114, 46, 116, 120, 116>>,
     content |-> "docA", size |-> 250 * 1024 * 1024, read |-> CHUNK_SIZE],
                                                        \* "liar.txt"
    [name |-> <<116, 111, 111, 108, 46, 101, 120, 101>>,
     content |-> "empty", size |-> 0, read |-> CHUNK_SIZE],
                                                        \* "tool.exe"
    [name |-> <<33, 46, 104, 116, 109>>,
     content |-> "empty", size |-> 0, read |-> CHUNK_SIZE]
                                                        \* "!.htm"
>>

(***************************************************************************)
(* State                                                                   *)
(***************************************************************************)
VARIABLES
    results,          \* st.session_state.results: digest -> record
    order,            \* the insertion order of the dict results
    disk,             \* the paths of the temporary files on disk
    made,             \* temporary files created so far (paths are never reused)
    nuploads,         \* the number of files in the uploader in this run
    uploads,          \* those of them the loop has reached (indices of
                      \* Catalogue)
    also_plain_text,  \* the sidebar checkbox "Also export plain-text (.txt)"
    pressed,          \* this run was started by the "Prepare ZIP" button
    pc,               \* "idle" between runs, "loop" in the per-file loop,
                      \* "zip" at the ZIP block and after it
    idx,              \* the position of the per-file loop in uploads
    clock,            \* datetime.now(), in seconds
    zipOut,           \* the entries of the archive prepared in this run
    processed,        \* history: uploads the loop of this run has handled
    convCalls,        \* history: converter invocations, by digest of the file
    stored,           \* history: records written to results, by digest
    last,             \* history: what the loop did with the last upload,
                      \* and the cache as it was before
    orig_bytes,       \* pct_smaller: first argument
    txt_bytes,        \* pct_smaller: second argument
    pct,              \* pct_smaller: the value returned
    pct_pc            \* "in" before the call of pct_smaller, "out" after it

pipeline == <<results, order, disk, made, nuploads, uploads, also_plain_text,
              pressed,
              pc, idx, clock, zipOut, processed,
              convCalls, stored, last>>
compare  == <<orig_bytes, txt_bytes, pct, pct_pc>>
vars     == <<pipeline, compare>>

NoZip    == <<[name |-> <<>>, data |-> NoneText]>>
NoDigest == <<"sha256", "">>
NoLast   == [kind |-> "none", upload |-> 0, tmp |-> 0, bytes |-> 0,
             digest |-> NoDigest, before |-> <<>>]

PipelineInit ==
    /\ results = <<>>
    /\ order = <<>>
    /\ disk = {}
    /\ made = 0
    /\ nuploads = 0
    /\ uploads = <<>>
    /\ also_plain_text = FALSE
    /\ pressed = FALSE
    /\ pc = "idle"
    /\ idx = 1
    /\ clock = 0
    /\ zipOut = NoZip
    /\ processed = 0
    /\ convCalls = [h \in Digests |-> 0]
    /\ stored = [h \in Digests |-> 0]
    /\ last = NoLast

(***************************************************************************)
(* sha256_stream_and_save                                                  *)
(***************************************************************************)
\* the loop with the size of the request added in place of len(chunk)
RECURSIVE StreamLoopCountsRequests(_, _, _, _, _)
StreamLoopCountsRequests(remaining, step, bytes_written, nread, faultAt) ==
    IF nread + 1 = faultAt
    THEN [kind |-> "io_fault", bytes |-> bytes_written]
    ELSE LET chunk == Min(remaining, Min(step, CHUNK_SIZE))
         IN  IF chunk = 0
             THEN [kind |-> "ok", bytes |-> bytes_written]
             ELSE IF ExceedsHardCap(bytes_written + CHUNK_SIZE)
                  THEN [kind |-> "stream_cap", bytes |-> bytes_written + CHUNK_SIZE]
                  ELSE StreamLoopCountsRequests(remaining - chunk, step,
                           bytes_written + CHUNK_SIZE, nread + 1, faultAt)

\* The while loop.  remaining: the bytes the stream still holds; step: the
\* most bytes one read returns; nread: the reads done; faultAt: the read
\* that raises (0: none does).
RECURSIVE StreamLoop(_, _, _, _, _)
StreamLoop(remaining, step, bytes_written, nread, faultAt) ==
    IF nread + 1 = faultAt
    THEN [kind |-> "io_fault", bytes |-> bytes_written]
    ELSE LET chunk == Min(remaining, Min(step, CHUNK_SIZE))
         IN  IF chunk = 0
             THEN [kind |-> "ok", bytes |-> bytes_written]
             ELSE IF ExceedsHardCap(bytes_written + chunk)
                  THEN [kind |-> "stream_cap", bytes |-> bytes_written + chunk]
                  ELSE StreamLoop(remaining - chunk, step,
                                  bytes_written + chunk, nread + 1, faultAt)

\* kind "ok": returns (tmp_path, digest, bytes); the file stays on disk.
\* kind "declared_cap": raises before a file is created.
\* kind "stream_cap": raises after the file was removed.
\* kind "io_fault": a read or write raises; the exception leaves the
\*   function with the file still on disk (no handler removes it).
sha256_stream_and_save(uploaded_file, faultAt) ==
    LET total_size == uploaded_file.size
    IN  IF total_size # NoneInt /\ total_size # 0 /\ ExceedsHardCap(total_size)
        THEN [kind |-> "declared_cap", bytes |-> 0, created |-> FALSE,
              kept |-> FALSE, digest |-> NoDigest]
        ELSE LET r == StreamLoop(ByteLen(uploaded_file.content),
                                 uploaded_file.read, 0, 0, faultAt)
             IN  [kind |-> r.kind, bytes |-> r.bytes, created |-> TRUE,
                  kept |-> r.kind # "stream_cap",
                  digest |-> IF r.kind = "ok"
                             THEN Sha256Hex(uploaded_file.content)
                             ELSE NoDigest]

\* sha256_stream_and_save on each upload of the catalogue, for each read that
\* may raise: the function is pure, its values are tabulated once
Saved ==
    [u \in 1..Len(Catalogue), faultAt \in FaultReads |->
        sha256_stream_and_save(Catalogue[u], faultAt)]

\* the uploads of the catalogue that pass is_supported(upload.name)
Supported == {u \in 1..Len(Catalogue) : is_supported(Catalogue[u].name)}

(***************************************************************************)
(* Conversion and the record                                               *)
(***************************************************************************)
\* The body of convert_via_markitdown, on the file that holds document c.
\* st.cache_data keys its memo on temp_path; every call gets a path no
\* earlier call had, so the memo never answers and the body runs at each
\* call.
convert_via_markitdown(c) == Strip(OrEmpty(text_content(c)))

\* the except branch leaving md_text unset
md_unset == NoneText

\* md_text of the except branch
md_on_failure == <<>>

\* the record with len(txt_text) in place of len(txt_text.encode("utf-8"))
NewRecordCountsChars(name, md_text, saved_bytes, now) ==
    LET txt_text == IF Truthy(md_text) THEN strip_markdown(md_text) ELSE <<>>
    IN  [name           |-> name,
         md             |-> md_text,
         txt            |-> IF also_plain_text THEN txt_text ELSE NoneText,
         ts             |-> now,
         original_bytes |-> saved_bytes,
         txt_bytes      |-> IF txt_text # NoneText THEN Len(txt_text) ELSE 0]

\* lines 229-240: the record stored for a new digest
NewRecord(name, md_text, saved_bytes, now) ==
    LET txt_text == IF Truthy(md_text) THEN strip_markdown(md_text) ELSE <<>>
    IN  [name           |-> name,
         md             |-> md_text,
         txt            |-> IF also_plain_text THEN txt_text ELSE NoneText,
         ts             |-> now,
         original_bytes |-> saved_bytes,
         txt_bytes      |-> IF txt_text # NoneText THEN Utf8Len(txt_text) ELSE 0]

\* the lookup that never finds the digest
InCacheNever(file_hash) == FALSE

\* file_hash in st.session_state.results
InCache(file_hash) == file_hash \in DOMAIN results

(***************************************************************************)
(* The script                                                              *)
(***************************************************************************)
Put(f, k, v) == [x \in DOMAIN f \cup {k} |-> IF x = k THEN v ELSE f[x]]

\* The uploader's list is an input of the run.  Its length is fixed when the
\* run starts; its elements are drawn when the loop reaches them, and kept,
\* because a click on "Prepare ZIP" reruns the script over the same list.
Arriving == IF idx <= Len(uploads) THEN {uploads[idx]}
            ELSE 1..Len(Catalogue)

Seen(u) == IF idx <= Len(uploads) THEN uploads ELSE Append(uploads, u)

\* the loop left at the first upload that fails
AfterUploadAbort(failed) == IF failed \/ idx = nuploads THEN "zip" ELSE "loop"

\* where the script goes after an upload: every branch of the loop body,
\* the ones that report a failure included, goes on with the next upload
AfterUpload(failed) == IF idx = nuploads THEN "zip" ELSE "loop"

Advance(u, kind, failed, tmp, bytes, digest) ==
    /\ uploads' = Seen(u)
    /\ idx' = idx + 1
    /\ pc' = AfterUpload(failed)
    /\ processed' = processed + 1
    /\ last' = [kind |-> kind, upload |-> u, tmp |-> tmp,
                bytes |-> bytes, digest |-> digest, before |-> results]

\* A rerun caused by the uploader or the sidebar: the script starts over
\* with the widgets' new values.
RunWidgets ==
    /\ pc = "idle"
    /\ \E n \in 1..MaxBatch, toggle \in BOOLEAN :
          /\ made + n <= MaxFiles
          /\ nuploads' = n
          /\ also_plain_text' = toggle
    /\ uploads' = <<>>
    /\ pressed' = FALSE
    /\ pc' = "loop"
    /\ idx' = 1
    /\ processed' = 0
    /\ zipOut' = NoZip
    /\ last' = NoLast
    /\ UNCHANGED <<results, order, disk, made, clock, convCalls, stored>>
    /\ UNCHANGED compare

\* A rerun with an empty uploader: st.stop() ends the script before the loop.
RunEmpty ==
    /\ pc = "idle"
    /\ nuploads' = 0
    /\ uploads' = <<>>
    /\ pressed' = FALSE
    /\ idx' = 1
    /\ processed' = 0
    /\ zipOut' = NoZip
    /\ last' = NoLast
    /\ UNCHANGED <<results, order, disk, made, also_plain_text, pc, clock,
                   convCalls, stored>>
    /\ UNCHANGED compare

\* The script has ended with results in the cache, so with the checkbox of
\* line 303 checked the page shows "Prepare ZIP".  A click reruns the script;
\* the widgets keep their values.
RunClick ==
    /\ pc = "zip"
    /\ ~pressed
    /\ order # <<>>
    /\ made + nuploads <= MaxFiles
    /\ pressed' = TRUE
    /\ pc' = "loop"
    /\ idx' = 1
    /\ processed' = 0
    /\ zipOut' = NoZip
    /\ last' = NoLast
    /\ UNCHANGED <<results, order, disk, made, uploads, nuploads,
                   also_plain_text, clock, convCalls, stored>>
    /\ UNCHANGED compare

\* lines 190-192
Unsupported(u) ==
    /\ pc = "loop"
    /\ u \notin Supported
    /\ Advance(u, "unsupported", TRUE, 0, 0, NoDigest)
    /\ UNCHANGED <<results, order, disk, made, nuploads, also_plain_text,
                   pressed, clock, zipOut, convCalls, stored>>
    /\ UNCHANGED compare

\* lines 203-207: sha256_stream_and_save raises
UploadFailed(u) ==
    /\ pc = "loop"
    /\ u \in Supported
    /\ \E faultAt \in FaultReads :
          LET r == Saved[u, faultAt]
          IN  /\ r.kind # "ok"
              /\ made' = IF r.created THEN made + 1 ELSE made
              /\ disk' = IF r.kept THEN disk \cup {made + 1} ELSE disk
              /\ Advance(u, r.kind, TRUE, IF r.created THEN made + 1 ELSE 0,
                         r.bytes, NoDigest)
    /\ UNCHANGED <<results, order, nuploads, also_plain_text, pressed,
                   clock, zipOut, convCalls, stored>>
    /\ UNCHANGED compare

\* the cache hit that fills in the plain text of a record stored without it
CacheHitBackfill(u) ==
    /\ pc = "loop"
    /\ u \in Supported
    /\ \E faultAt \in FaultReads :
          LET r == Saved[u, faultAt]
          IN  /\ r.kind = "ok"
              /\ InCache(r.digest)
              /\ made' = made + 1
              /\ disk' = disk \cup {made + 1}
              /\ results' =
                    IF also_plain_text /\ results[r.digest].txt = NoneText
                    THEN [results EXCEPT ![r.digest].txt =
                             IF Truthy(results[r.digest].md)
                             THEN strip_markdown(results[r.digest].md)
                             ELSE <<>>]
                    ELSE results
              /\ Advance(u, "cached", FALSE, made + 1, r.bytes, r.digest)
    /\ UNCHANGED <<order, nuploads, also_plain_text, pressed,
                   clock, zipOut, convCalls, stored>>
    /\ UNCHANGED compare

\* lines 210-215: the digest is in the cache; the record is read, nothing
\* else is done with the file just saved
CacheHit(u) ==
    /\ pc = "loop"
    /\ u \in Supported
    /\ \E faultAt \in FaultReads :
          LET r == Saved[u, faultAt]
          IN  /\ r.kind = "ok"
              /\ InCache(r.digest)
              /\ made' = made + 1
              /\ disk' = disk \cup {made + 1}
              /\ Advance(u, "cached", FALSE, made + 1, r.bytes, r.digest)
    /\ UNCHANGED <<results, order, nuploads, also_plain_text, pressed,
                   clock, zipOut, convCalls, stored>>
    /\ UNCHANGED compare

\* lines 216-240: convert, remove the file, store the record
ConvertAndStore(u) ==
    /\ pc = "loop"
    /\ u \in Supported
    /\ \E faultAt \in FaultReads, raises \in BOOLEAN, now \in clock..MaxClock :
          LET r         == Saved[u, faultAt]
              temp_path == made + 1
              saved     == disk \cup {temp_path}
              md_text   == IF raises THEN md_on_failure
                           ELSE convert_via_markitdown(Catalogue[u].content)
          IN  /\ r.kind = "ok"
              /\ ~InCache(r.digest)
              /\ made' = made + 1
              /\ disk' = saved \ {temp_path}
              /\ convCalls' = [convCalls EXCEPT ![r.digest] = @ + 1]
              /\ stored' = [stored EXCEPT ![r.digest] = @ + 1]
              /\ results' = Put(results, r.digest,
                                NewRecord(Catalogue[u].name, md_text, r.bytes, now))
              /\ order' = IF r.digest \in DOMAIN results THEN order
                          ELSE Append(order, r.digest)
              /\ clock' = now
              /\ Advance(u, IF raises THEN "conversion_failed" ELSE "converted",
                         raises, temp_path, r.bytes, r.digest)
    /\ UNCHANGED <<nuploads, also_plain_text, pressed, zipOut>>
    /\ UNCHANGED compare

(***************************************************************************)
(* Bundle: Download all as ZIP                                             *)
(***************************************************************************)
\* datetime.now().strftime("%Y%m%d-%H%M%S"): one stamp per second
Stamp(now) == <<48 + (now \div 10), 48 + (now % 10)>>

\* the entries with the record of an empty markdown text left out
ItemEntriesSkipEmpty(item, now) ==
    LET base == sanitize_filename(PathStem(item.name))
        stem == base \o <<95, 95>> \o Stamp(now)
    IN  IF ~Truthy(item.md) THEN <<>>
        ELSE <<[name |-> stem \o <<46, 109, 100>>, data |-> OrEmpty(item.md)]>>
             \o (IF Truthy(item.txt)
                 THEN <<[name |-> stem \o <<46, 116, 120, 116>>,
                         data |-> OrEmpty(item.txt)]>>
                 ELSE <<>>)

\* lines 308-315: the entries written for one record
ItemEntries(item, now) ==
    LET base == sanitize_filename(PathStem(item.name))
        stem == base \o <<95, 95>> \o Stamp(now)
    IN  <<[name |-> stem \o <<46, 109, 100>>, data |-> OrEmpty(item.md)]>>
        \o (IF Truthy(item.txt)
            THEN <<[name |-> stem \o <<46, 116, 120, 116>>,
                    data |-> OrEmpty(item.txt)]>>
            ELSE <<>>)

\* line 307: the records in the order of the dict, each with the time of
\* its own call of datetime.now()
RECURSIVE ZipEntries(_, _)
ZipEntries(k, stamps) ==
    IF k > Len(order) THEN <<>>
    ELSE ItemEntries(results[order[k]], stamps[k]) \o ZipEntries(k + 1, stamps)

Rising(stamps) == \A k \in DOMAIN stamps :
                      /\ clock <= stamps[k]
                      /\ k > 1 => stamps[k - 1] <= stamps[k]

\* lines 301-323, st.button(...) true: the archive is written
PrepareZip ==
    /\ pc = "zip"
    /\ order # <<>>
    /\ pressed
    /\ \E stamps \in [1..Len(order) -> clock..MaxClock] :
          /\ Rising(stamps)
          /\ zipOut' = ZipEntries(1, stamps)
          /\ clock' = stamps[Len(order)]
    /\ pressed' = FALSE
    /\ UNCHANGED <<results, order, disk, made, nuploads, uploads,
                   also_plain_text, pc, idx, processed, convCalls, stored,
                   last>>
    /\ UNCHANGED compare

\* The script has ended (with st.button(...) false the ZIP block writes
\* nothing) and the page stays until a widget changes; the values the
\* widgets take then are those of the next RunWidgets or RunEmpty.
EndRun ==
    /\ pc = "zip"
    /\ ~pressed
    /\ pc' = "idle"
    /\ nuploads' = 0
    /\ uploads' = <<>>
    /\ also_plain_text' = FALSE
    /\ idx' = 1
    /\ processed' = 0
    /\ zipOut' = NoZip
    /\ last' = NoLast
    /\ UNCHANGED <<results, order, disk, made, pressed, clock, convCalls, stored>>
    /\ UNCHANGED compare

(***************************************************************************)
(* pct_smaller                                                             *)
(***************************************************************************)
MaxOrig == 100
MaxTxt  == 201

NonePct == [num |-> 0, den |-> 0]

\* the percentage without the lower clamp
pct_smaller_no_floor(orig, txt) ==
    IF orig # NoneInt /\ orig # 0 /\ txt # NoneInt
    THEN LET den == Max(orig, 1)
             num == 100 * (den - txt)
         IN  [num |-> Min(num, 100 * den), den |-> den]
    ELSE NonePct

\* The value is the rational num/den.  Python computes it in double
\* precision; the rounding of the division is not modelled.
pct_smaller(orig, txt) ==
    IF orig # NoneInt /\ orig # 0 /\ txt # NoneInt
    THEN LET den == Max(orig, 1)
             num == 100 * (den - txt)
         IN  [num |-> Max(Min(num, 100 * den), (0 - 100) * den), den |-> den]
    ELSE NonePct

CompareInit ==
    /\ orig_bytes \in {NoneInt} \cup 0..MaxOrig
    /\ txt_bytes \in {NoneInt} \cup 0..MaxTxt
    /\ pct = NonePct
    /\ pct_pc = "in"

Compare ==
    /\ pct_pc = "in"
    /\ pct' = pct_smaller(orig_bytes, txt_bytes)
    /\ pct_pc' = "out"
    /\ UNCHANGED <<orig_bytes, txt_bytes>>
    /\ UNCHANGED pipeline

(***************************************************************************)
(* Specifications                                                          *)
(***************************************************************************)
Init ==
    /\ PipelineInit
    /\ orig_bytes = 0
    /\ txt_bytes = 0
    /\ pct = NonePct
    /\ pct_pc = "out"

Next ==
    \/ RunWidgets
    \/ RunEmpty
    \/ RunClick
    \/ \E u \in Arriving : Unsupported(u)
    \/ \E u \in Arriving : UploadFailed(u)
    \/ \E u \in Arriving : CacheHit(u)
    \/ \E u \in Arriving : ConvertAndStore(u)
    \/ PrepareZip
    \/ EndRun

Spec == Init /\ [][Next]_vars

InitPct == PipelineInit /\ CompareInit

NextPct == Compare

SpecPct == InitPct /\ [][NextPct]_vars

(***************************************************************************)
(* Properties                                                              *)
(***************************************************************************)
HardCapBytes == HARD_CAP_MB * 1024 * 1024

\* the upload the loop handled last
LastUpload == Catalogue[last.upload]

\* its declared size is present and over the cap
DeclaredOver(u) == u.size # NoneInt /\ u.size > HardCapBytes

\* sha256_stream_and_save was called for the last upload and no read raised
SaveRan == last.kind \notin {"none", "unsupported", "io_fault"}

SaveSucceeded == last.kind \in {"cached", "converted", "conversion_failed"}

\* C1: on every exit path of the loop body that follows the creation of a
\* temporary file (conversion done, conversion failed, size cap hit while
\* streaming, cache hit), the file is gone when the upload has been handled.
C1_TempFileDeleted ==
    last.kind \in {"converted", "conversion_failed", "stream_cap", "cached"}
        => last.tmp \notin disk

\* C2: per content hash the converter is invoked at most once and at most
\* one record is ever written: once for a hash that has a record, never for
\* one that has none; an upload that finds its hash in the cache leaves the
\* cache and both counts as they were.
C2_ConvertOncePerHash ==
    /\ \A h \in Digests :
          /\ convCalls[h] = (IF h \in DOMAIN results THEN 1 ELSE 0)
          /\ stored[h] = convCalls[h]
    /\ last.kind = "cached" =>
          /\ last.digest \in DOMAIN last.before
          /\ results = last.before

\* a second upload of the same bytes under another name found the record
C2_Witness ==
    /\ last.kind = "cached"
    /\ LastUpload.name # results[last.digest].name
    /\ convCalls[last.digest] = 1

\* C3: when the declared size or the streamed byte count of an upload
\* exceeds the hard cap, sha256_stream_and_save fails, no temporary file of
\* that upload is on disk afterwards (none was created when the declared
\* size is over the cap) and the cache is as it was.
C3_OverCapFails ==
    (SaveRan /\ (DeclaredOver(LastUpload)
                    \/ ByteLen(LastUpload.content) > HardCapBytes))
        => /\ last.kind \in {"declared_cap", "stream_cap"}
           /\ last.tmp \notin disk
           /\ DeclaredOver(LastUpload) => last.tmp = 0
           /\ results = last.before

\* the cap was hit while streaming: a file was created, and removed
C3_Witness ==
    /\ last.kind = "stream_cap"
    /\ last.tmp > 0
    /\ last.bytes > HardCapBytes
    /\ ~DeclaredOver(LastUpload)

\* C4 as stated: whatever the declared size, an upload of at most the hard
\* cap is saved and the count returned, the record's original_bytes, is the
\* length of its content.
C4_Original ==
    (SaveRan /\ ByteLen(LastUpload.content) <= HardCapBytes)
        => /\ SaveSucceeded
           /\ last.bytes = ByteLen(LastUpload.content)
           /\ results[last.digest].original_bytes = ByteLen(LastUpload.content)

\* C4 amended: an upload of at most the hard cap whose declared size is
\* absent or not over the cap, and whose reads do not raise, is saved, and
\* the count returned, the original_bytes of every record, is the length of
\* the content, whatever the declared size says and however the reads split
\* the content.
C4_SavedCountIsLength ==
    /\ (SaveRan /\ ByteLen(LastUpload.content) <= HardCapBytes
               /\ ~DeclaredOver(LastUpload))
          => /\ SaveSucceeded
             /\ last.bytes = ByteLen(LastUpload.content)
    /\ \A c \in Contents :
          Sha256Hex(c) \in DOMAIN results
              => results[Sha256Hex(c)].original_bytes = ByteLen(c)

\* an upload without a declared size, read in short chunks, was converted
C4_Witness ==
    /\ last.kind = "converted"
    /\ LastUpload.size = NoneInt
    /\ LastUpload.read < CHUNK_SIZE
    /\ results[last.digest].original_bytes = 5 * 1024 * 1024

FailureKinds == {"unsupported", "declared_cap", "stream_cap", "io_fault",
                 "conversion_failed"}

\* C5: a failure at one upload of a batch (unsupported type, size cap, read
\* fault, failed conversion) leaves the records of the cache as they were
\* and the loop goes on: the script reaches its ZIP block only when every
\* upload of the batch has been handled.
C5_FailureIsFileScoped ==
    /\ pc = "zip" => processed = nuploads
    /\ pc = "loop" => processed < nuploads
    /\ last.kind \in FailureKinds =>
          \A h \in DOMAIN last.before :
              h \in DOMAIN results /\ results[h] = last.before[h]

\* the first upload of a batch was refused, the second converted
C5_Witness ==
    /\ processed = 2
    /\ uploads[1] \notin Supported
    /\ last.kind = "converted"

\* C6: a failed conversion of a new hash stores a record whose markdown text
\* is the empty string, and no record ever holds None as markdown text.
C6_FailedConversionStoresEmpty ==
    /\ \A h \in DOMAIN results : results[h].md # NoneText
    /\ last.kind = "conversion_failed" =>
          /\ last.digest \notin DOMAIN last.before
          /\ last.digest \in DOMAIN results
          /\ results[last.digest].md = <<>>

\* the converter raised on a document it can extract text from
C6_Witness ==
    /\ last.kind = "conversion_failed"
    /\ Truthy(text_content(LastUpload.content))
    /\ results[last.digest].md = <<>>

\* C7 as stated: txt_bytes is the UTF-8 length of the stored txt field, 0
\* when that field is None or empty.
C7_Original ==
    \A h \in DOMAIN results :
        results[h].txt_bytes =
            (IF Truthy(results[h].txt) THEN Utf8Len(results[h].txt) ELSE 0)

\* C7 amended: txt_bytes is a non-negative integer, the UTF-8 length of the
\* plain text reduced from the record's markdown, whether or not that text
\* was stored: it is the length of the txt field when the field is present,
\* and 0 only when the reduced text is empty.
C7_TxtBytesOfReducedText ==
    \A h \in DOMAIN results :
        LET r       == results[h]
            reduced == IF Truthy(r.md) THEN strip_markdown(r.md) ELSE <<>>
        IN  /\ r.txt_bytes >= 0
            /\ r.txt_bytes = Utf8Len(reduced)
            /\ r.txt # NoneText => r.txt = reduced

\* a record stored with the export off: no txt, and a positive txt_bytes
C7_Witness ==
    \E h \in DOMAIN results :
        results[h].txt = NoneText /\ results[h].txt_bytes = 7

\* C8: pct_smaller is None when orig is 0 or None or txt is None; otherwise
\* it is (1 - txt/orig) * 100 clamped to [-100, 100]; so 50 for (100, 50),
\* -100 for (50, 100) and 100 for (100, 0).
C8_PctSmaller ==
    pct_pc = "out" =>
        IF orig_bytes \in {NoneInt, 0} \/ txt_bytes = NoneInt
        THEN pct = NonePct
        ELSE /\ pct.den = orig_bytes
             /\ pct.num <= 100 * pct.den
             /\ pct.num >= (0 - 100) * pct.den
             /\ txt_bytes <= 2 * orig_bytes
                   => pct.num = 100 * (orig_bytes - txt_bytes)
             /\ txt_bytes > 2 * orig_bytes => pct.num = (0 - 100) * pct.den
             /\ (orig_bytes = 100 /\ txt_bytes = 50) => pct.num = 50 * pct.den
             /\ (orig_bytes = 50 /\ txt_bytes = 100)
                   => pct.num = (0 - 100) * pct.den
             /\ (orig_bytes = 100 /\ txt_bytes = 0) => pct.num = 100 * pct.den

\* a text more than twice the original: the value is clamped to -100
C8_Witness ==
    /\ pct_pc = "out"
    /\ orig_bytes = 50
    /\ txt_bytes = 101
    /\ pct = [num |-> (0 - 100) * 50, den |-> 50]

IsMd(e)  == Len(e.name) >= 3
            /\ SubSeq(e.name, Len(e.name) - 2, Len(e.name)) = <<46, 109, 100>>
IsTxt(e) == Len(e.name) >= 4
            /\ SubSeq(e.name, Len(e.name) - 3, Len(e.name)) = <<46, 116, 120, 116>>

StartsWith(n, p) == Len(n) >= Len(p) /\ SubSeq(n, 1, Len(p)) = p

C10_RecordsNeverChange ==
    [][\A h \in DOMAIN results :
           h \in DOMAIN results' /\ results'[h] = results[h]]_vars

\* a record stored with the export off was found again with the export on,
\* and still has no plain text
C10_Witness ==
    /\ last.kind = "cached"
    /\ also_plain_text
    /\ results[last.digest].txt = NoneText
    /\ Truthy(results[last.digest].md)

=============================================================================
